---- MODULE Spec2Model ----
(***************************************************************************)
(* A model of the two programs of the repository:                          *)
(*   - src/archive/pty_runner.py: run_with_pty and its caller main, with   *)
(*     the child process and the pseudo-terminal as the environment;       *)
(*   - src/archive/stream_parser.py: main, the line-by-line decoder.       *)
(* Spec is the runner's specification, DecoderSpec the decoder's.          *)
(***************************************************************************)
EXTENDS Integers, Sequences, FiniteSets, TLC

VARIABLES
    \* ---- pty_runner.py: run_with_pty's locals and position
    pc,             \* position of run_with_pty / main
    input_data,     \* "None", "empty" (the empty text), "text", or "big"
                    \* (a text larger than the pipe to the child holds)
    log_file,       \* TRUE when a log destination was given
    master_open,    \* the controller endpoint master_fd is open
    slave_open,     \* the parent's copy of slave_fd is open
    stdin_closed,   \* process.stdin.close() has been called
    stdin_written,  \* input_data has been written to process.stdin
    log_handle,     \* TRUE when log_handle is an open file object
    output_chunks,  \* the list output_chunks (a sequence of decoded texts)
    returncode,     \* process.returncode: "None" until poll() sees the exit
    exc,            \* an exception is propagating out of run_with_pty
    returned,       \* the pair run_with_pty returned
    exit_code,      \* the code main hands to sys.exit, as the OS reports it
    \* ---- the sinks
    stdout,         \* everything written to sys.stdout
    logfile,        \* everything written to the log file
    \* ---- the environment: the child and the pseudo-terminal
    child,          \* "unborn", "running" or "exited"
    child_status,   \* the child's exit status once it has exited
    child_slave,    \* the child (or a descendant) holds the subordinate endpoint
    buf,            \* bytes written to the pty and not yet read
    child_blocked,  \* the child is inside a write the full pty does not take
    child_read_stdin,  \* the child has read from its standard input
    \* ---- history
    chunks_read,    \* the byte chunks os.read returned, in order
    master_closes,  \* number of os.close(master_fd) calls
    log_closes,     \* number of log_handle.close() calls
    entered_loop,   \* the try / while of lines 38-39 has been entered
    log_open_failed,  \* open(log_file, 'w') of line 36 raised
    left_by,        \* how the polling loop was left, "none" while it has not been
    \* ---- stream_parser.py: main's locals and position
    dpc,            \* "reading", "done", or "crashed" (an exception left main)
    full_text,      \* the accumulated narrative full_text
    seen_tools,     \* the set seen_tools
    jsonl_buf,      \* written to jsonl_handle and not yet flushed
    jsonl_disk,     \* the record-archive file's content
    live,           \* everything printed to sys.stdout, in order
    narrative_file, \* the narrative file's content
    \* ---- history
    received,       \* the lines sys.stdin has delivered, in order
    announced,      \* the tool identifiers of the progress lines printed
    narrative_writes  \* number of writes to the narrative file

rvars == <<pc, input_data, log_file, master_open, slave_open, stdin_closed,
           stdin_written, log_handle, output_chunks, returncode, exc, returned,
           exit_code, stdout, logfile, child, child_status, child_slave, buf,
           chunks_read, master_closes, log_closes, entered_loop,
           log_open_failed, left_by, child_blocked, child_read_stdin>>

dvars == <<dpc, full_text, seen_tools, jsonl_buf, jsonl_disk, live,
           narrative_file, received, announced, narrative_writes>>

vars == <<rvars, dvars>>

----------------------------------------------------------------------------
\* Bounds and program constants

\* The child writes at most MaxOut bytes to its combined output.
MaxOut == 3

\* The pseudo-terminal holds at most PtyCap unread bytes; a write to the
\* subordinate endpoint blocks while it is full.
PtyCap == 2

\* os.read(master_fd, 1024)
ReadSize == 1024

\* A plain ASCII byte, a UTF-8 lead byte and a UTF-8 continuation byte.
Bytes == {"x61", "xC3", "xA9"}

ExitStatuses == {"0", "3"}

None == "None"

Min(a, b) == IF a <= b THEN a ELSE b

Tail2(s) == SubSeq(s, 3, Len(s))

\* data.decode('utf-8', errors='replace') on the bytes of the model
RECURSIVE Decode(_)
Decode(bs) ==
    IF bs = <<>> THEN <<>>
    ELSE IF Head(bs) = "x61" THEN <<"a">> \o Decode(Tail(bs))
    ELSE IF Head(bs) = "xC3" /\ Len(bs) >= 2 /\ bs[2] = "xA9"
         THEN <<"U+00E9">> \o Decode(Tail2(bs))
    ELSE <<"U+FFFD">> \o Decode(Tail(bs))

\* ''.join(output_chunks)
RECURSIVE Join(_)
Join(chunks) ==
    IF chunks = <<>> THEN <<>> ELSE Head(chunks) \o Join(Tail(chunks))

\* The controller endpoint reports a hangup once no process holds the
\* subordinate endpoint.
Hangup == ~slave_open /\ ~child_slave

\* select.select([master_fd], [], [], 0.1) reports master_fd readable
Ready == buf # <<>> \/ Hangup

\* What os.read(master_fd, 1024) can do: some of the buffered bytes; at a
\* hangup with nothing buffered, b'' or OSError (EIO), as the platform has it.
OsRead ==
    IF buf # <<>>
    THEN {[kind |-> "data", n |-> k] : k \in 1..Min(Len(buf), ReadSize)}
    ELSE IF Hangup
         THEN {[kind |-> "eof", n |-> 0], [kind |-> "oserror", n |-> 0]}
         ELSE {}

\* A write and flush on a sink succeeds, raises OSError (BrokenPipeError,
\* ENOSPC) or raises another exception (UnicodeEncodeError, ValueError).
WriteOutcomes == {"ok", "oserror", "error"}

Terminal == {"raised", "exited"}

----------------------------------------------------------------------------
\* The runner

RInit ==
    /\ pc = "openpty"
    /\ input_data \in {"None", "empty", "text", "big"}
    /\ log_file \in BOOLEAN
    /\ master_open = FALSE
    /\ slave_open = FALSE
    /\ stdin_closed = FALSE
    /\ stdin_written = FALSE
    /\ log_handle = FALSE
    /\ output_chunks = <<>>
    /\ returncode = None
    /\ exc = FALSE
    /\ returned = [status |-> None, text |-> <<>>]
    /\ exit_code = None
    /\ stdout = <<>>
    /\ logfile = <<>>
    /\ child = "unborn"
    /\ child_status = None
    /\ child_slave = FALSE
    /\ buf = <<>>
    /\ chunks_read = <<>>
    /\ master_closes = 0
    /\ log_closes = 0
    /\ entered_loop = FALSE
    /\ log_open_failed = FALSE
    /\ left_by = "none"
    /\ child_blocked = FALSE
    /\ child_read_stdin = FALSE

\* line 17: master_fd, slave_fd = pty.openpty()
OpenPty ==
    /\ pc = "openpty"
    /\ master_open' = TRUE
    /\ slave_open' = TRUE
    /\ pc' = "spawn"
    /\ UNCHANGED dvars
    /\ UNCHANGED <<child_blocked, child_read_stdin>>
    /\ UNCHANGED <<input_data, log_file, stdin_closed, stdin_written,
                   log_handle, output_chunks, returncode, exc, returned,
                   exit_code, stdout, logfile, child, child_status,
                   child_slave, buf, chunks_read, master_closes, log_closes,
                   entered_loop, log_open_failed,
                   left_by>>

\* lines 20-26: subprocess.Popen(...) starts the child with slave_fd as its
\* stdout and stderr, or raises (the executable is not found).
Spawn ==
    /\ pc = "spawn"
    /\ \/ /\ child' = "running"
          /\ child_slave' = TRUE
          /\ pc' = "closeslave"
          /\ exc' = exc
       \/ /\ exc' = TRUE
          /\ pc' = "raised"
          /\ UNCHANGED <<child, child_slave>>
    /\ UNCHANGED dvars
    /\ UNCHANGED <<child_blocked, child_read_stdin>>
    /\ UNCHANGED <<input_data, log_file, master_open, slave_open, stdin_closed,
                   stdin_written, log_handle, output_chunks, returncode,
                   returned, exit_code, stdout, logfile, child_status, buf,
                   chunks_read, master_closes, log_closes, entered_loop,
                   log_open_failed,
                   left_by>>

\* line 28: os.close(slave_fd)
CloseSlave ==
    /\ pc = "closeslave"
    /\ slave_open' = FALSE
    /\ pc' = "input"
    /\ UNCHANGED dvars
    /\ UNCHANGED <<child_blocked, child_read_stdin>>
    /\ UNCHANGED <<input_data, log_file, master_open, stdin_closed,
                   stdin_written, log_handle, output_chunks, returncode, exc,
                   returned, exit_code, stdout, logfile, child, child_status,
                   child_slave, buf, chunks_read, master_closes, log_closes,
                   entered_loop, log_open_failed,
                   left_by>>

\* lines 31-33: if input_data: write it to process.stdin and close the pipe.
\* The empty text is falsy: nothing is written and the pipe stays open.  A
\* child that has already exited makes the write raise BrokenPipeError.
\* process.stdin is a blocking pipe: the write of a text larger than the
\* pipe holds completes only once the child has read from it.
SendInput ==
    /\ pc = "input"
    /\ \/ /\ input_data \in {"text", "big"}
          /\ child = "running"
          /\ input_data = "big" => child_read_stdin
          /\ stdin_written' = TRUE
          /\ stdin_closed' = TRUE
          /\ pc' = "openlog"
          /\ exc' = exc
       \/ /\ input_data \in {"text", "big"}
          /\ child = "exited"
          /\ exc' = TRUE
          /\ pc' = "raised"
          /\ UNCHANGED <<stdin_written, stdin_closed>>
       \/ /\ input_data \notin {"text", "big"}
          /\ pc' = "openlog"
          /\ UNCHANGED <<stdin_written, stdin_closed, exc>>
    /\ UNCHANGED dvars
    /\ UNCHANGED <<child_blocked, child_read_stdin>>
    /\ UNCHANGED <<input_data, log_file, master_open, slave_open, log_handle,
                   output_chunks, returncode, returned, exit_code, stdout,
                   logfile, child, child_status, child_slave, buf, chunks_read,
                   master_closes, log_closes, entered_loop, log_open_failed,
                   left_by>>

\* lines 35-38: output_chunks = []; log_handle = open(log_file, 'w') if
\* log_file else None; then the try block and the loop are entered.  open
\* raises when the destination cannot be opened.
OpenLog ==
    /\ pc = "openlog"
    /\ output_chunks' = <<>>
    /\ \/ /\ log_file
          /\ log_handle' = TRUE
          /\ logfile' = <<>>
          /\ entered_loop' = TRUE
          /\ pc' = "select"
          /\ UNCHANGED <<exc, log_open_failed>>
       \/ /\ log_file
          /\ exc' = TRUE
          /\ log_open_failed' = TRUE
          /\ pc' = "raised"
          /\ UNCHANGED <<log_handle, logfile, entered_loop>>
       \/ /\ ~log_file
          /\ entered_loop' = TRUE
          /\ pc' = "select"
          /\ UNCHANGED <<log_handle, logfile, exc, log_open_failed>>
    /\ UNCHANGED dvars
    /\ UNCHANGED <<child_blocked, child_read_stdin>>
    /\ UNCHANGED <<input_data, log_file, master_open, slave_open, stdin_closed,
                   stdin_written, returncode, returned, exit_code, stdout,
                   child, child_status, child_slave, buf, chunks_read,
                   master_closes, log_closes,
                   left_by>>

\* lines 41-43 (at "select") and 69-71 (at "drain_select"):
\* ready, _, _ = select.select([master_fd], [], [], 0.1)
Select ==
    /\ pc = "select"
    /\ pc' = IF Ready THEN "read" ELSE "poll"
    /\ UNCHANGED dvars
    /\ UNCHANGED <<child_blocked, child_read_stdin>>
    /\ UNCHANGED <<input_data, log_file, master_open, slave_open, stdin_closed,
                   stdin_written, log_handle, output_chunks, returncode, exc,
                   returned, exit_code, stdout, logfile, child, child_status,
                   child_slave, buf, chunks_read, master_closes, log_closes,
                   entered_loop, log_open_failed,
                   left_by>>

\* lines 49-59 and 75-81: decode the n bytes read, append the text to
\* output_chunks, write and flush it to sys.stdout, then to the log if one is
\* open.  so and lo are what the two writes do.  Both copies sit inside a
\* try ... except OSError, so an OSError of a write is absorbed (pcAbsorb);
\* any other exception propagates to the finally clause.
Tee(n, so, lo, pcOk, pcAbsorb) ==
    LET data == SubSeq(buf, 1, n)
        text == Decode(data)
        sinkOk == so = "ok"
        logTried == sinkOk /\ log_handle
        logOk == logTried /\ lo = "ok"
        fault == IF ~sinkOk THEN so ELSE IF logTried THEN lo ELSE "ok"
    IN  /\ buf' = SubSeq(buf, n + 1, Len(buf))
        /\ chunks_read' = Append(chunks_read, data)
        /\ output_chunks' = Append(output_chunks, text)
        /\ stdout' = IF sinkOk THEN stdout \o text ELSE stdout
        /\ logfile' = IF logOk THEN logfile \o text ELSE logfile
        /\ exc' = (fault = "error")
        /\ left_by' = IF fault = "ok" THEN left_by
                      ELSE IF fault = "oserror" THEN "write_error"
                      ELSE "exception"
        /\ pc' = IF fault = "ok" THEN pcOk
                 ELSE IF fault = "oserror" THEN pcAbsorb ELSE "finally"

\* lines 44-62: the body of "if ready" in the main loop
Read ==
    /\ pc = "read"
    /\ \E r \in OsRead :
        \/ /\ r.kind = "data"
           /\ \E so \in WriteOutcomes, lo \in WriteOutcomes :
                /\ (so # "ok" \/ ~log_handle) => lo = "ok"
                /\ Tee(r.n, so, lo, "poll", "finally")
        \/ /\ r.kind = "eof"          \* lines 46-47: if not data: break
           /\ pc' = "finally"
           /\ left_by' = "eof"
           /\ UNCHANGED <<buf, chunks_read, output_chunks, stdout, logfile, exc>>
        \/ /\ r.kind = "oserror"      \* lines 61-62: except OSError: break
           /\ pc' = "finally"
           /\ left_by' = "read_error"
           /\ UNCHANGED <<buf, chunks_read, output_chunks, stdout, logfile, exc>>
    /\ UNCHANGED dvars
    /\ UNCHANGED <<child_blocked, child_read_stdin>>
    /\ UNCHANGED <<input_data, log_file, master_open, slave_open, stdin_closed,
                   stdin_written, log_handle, returncode, returned, exit_code,
                   child, child_status, child_slave, master_closes, log_closes,
                   entered_loop, log_open_failed>>

\* line 65: if process.poll() is not None.  poll() sets process.returncode
\* when the child has exited.
Poll ==
    /\ pc = "poll"
    /\ \/ /\ child = "exited"
          /\ returncode' = child_status
          /\ pc' = "drain_select"
       \/ /\ child # "exited"
          /\ returncode' = returncode
          /\ pc' = "select"
    /\ UNCHANGED dvars
    /\ UNCHANGED <<child_blocked, child_read_stdin>>
    /\ UNCHANGED <<input_data, log_file, master_open, slave_open, stdin_closed,
                   stdin_written, log_handle, output_chunks, exc, returned,
                   exit_code, stdout, logfile, child, child_status, child_slave,
                   buf, chunks_read, master_closes, log_closes, entered_loop,
                   log_open_failed,
                   left_by>>

\* DrainSelect without the break of line 84: "if not ready: break" leaves
\* the drain only, and the polling loop goes on
DrainSelectNoOuterBreak ==
    /\ pc = "drain_select"
    /\ pc' = IF Ready THEN "drain_read" ELSE "select"
    /\ left_by' = left_by
    /\ UNCHANGED dvars
    /\ UNCHANGED <<child_blocked, child_read_stdin>>
    /\ UNCHANGED <<input_data, log_file, master_open, slave_open, stdin_closed,
                   stdin_written, log_handle, output_chunks, returncode, exc,
                   returned, exit_code, stdout, logfile, child, child_status,
                   child_slave, buf, chunks_read, master_closes, log_closes,
                   entered_loop, log_open_failed>>

\* lines 69-71: the drain's readiness wait; "if not ready: break" and the
\* break of line 84 leave both loops.
DrainSelect ==
    /\ pc = "drain_select"
    /\ pc' = IF Ready THEN "drain_read" ELSE "finally"
    /\ left_by' = IF Ready THEN left_by ELSE "drain"
    /\ UNCHANGED dvars
    /\ UNCHANGED <<child_blocked, child_read_stdin>>
    /\ UNCHANGED <<input_data, log_file, master_open, slave_open, stdin_closed,
                   stdin_written, log_handle, output_chunks, returncode, exc,
                   returned, exit_code, stdout, logfile, child, child_status,
                   child_slave, buf, chunks_read, master_closes, log_closes,
                   entered_loop, log_open_failed>>

\* lines 72-84: the drain's read and tee; b'' breaks, OSError is passed over,
\* and line 84 then leaves the main loop.
DrainRead ==
    /\ pc = "drain_read"
    /\ \E r \in OsRead :
        \/ /\ r.kind = "data"
           /\ \E so \in WriteOutcomes, lo \in WriteOutcomes :
                /\ (so # "ok" \/ ~log_handle) => lo = "ok"
                /\ Tee(r.n, so, lo, "drain_select", "finally")
        \/ /\ r.kind = "eof"          \* lines 73-74: if not data: break
           /\ pc' = "finally"
           /\ left_by' = "drain"
           /\ UNCHANGED <<buf, chunks_read, output_chunks, stdout, logfile, exc>>
        \/ /\ r.kind = "oserror"      \* lines 82-83: except OSError: pass
           /\ pc' = "finally"
           /\ left_by' = "drain"
           /\ UNCHANGED <<buf, chunks_read, output_chunks, stdout, logfile, exc>>
    /\ UNCHANGED dvars
    /\ UNCHANGED <<child_blocked, child_read_stdin>>
    /\ UNCHANGED <<input_data, log_file, master_open, slave_open, stdin_closed,
                   stdin_written, log_handle, returncode, returned, exit_code,
                   child, child_status, child_slave, master_closes, log_closes,
                   entered_loop, log_open_failed>>

\* Finally with the log closed on the normal path only
FinallyLogOnSuccess ==
    /\ pc = "finally"
    /\ master_open' = FALSE
    /\ master_closes' = master_closes + 1
    /\ log_closes' = IF log_handle /\ ~exc THEN log_closes + 1 ELSE log_closes
    /\ log_handle' = (log_handle /\ exc)
    /\ pc' = IF exc THEN "raised" ELSE "return"
    /\ UNCHANGED dvars
    /\ UNCHANGED <<child_blocked, child_read_stdin>>
    /\ UNCHANGED <<input_data, log_file, slave_open, stdin_closed,
                   stdin_written, output_chunks, returncode, exc, returned,
                   exit_code, stdout, logfile, child, child_status, child_slave,
                   buf, chunks_read, entered_loop, log_open_failed,
                   left_by>>

\* lines 86-89: finally: os.close(master_fd); if log_handle: log_handle.close()
Finally ==
    /\ pc = "finally"
    /\ master_open' = FALSE
    /\ master_closes' = master_closes + 1
    /\ log_closes' = IF log_handle THEN log_closes + 1 ELSE log_closes
    /\ log_handle' = FALSE
    /\ pc' = IF exc THEN "raised" ELSE "return"
    /\ UNCHANGED dvars
    /\ UNCHANGED <<child_blocked, child_read_stdin>>
    /\ UNCHANGED <<input_data, log_file, slave_open, stdin_closed,
                   stdin_written, output_chunks, returncode, exc, returned,
                   exit_code, stdout, logfile, child, child_status, child_slave,
                   buf, chunks_read, entered_loop, log_open_failed,
                   left_by>>

\* line 91: return process.returncode, ''.join(output_chunks)
Return ==
    /\ pc = "return"
    /\ returned' = [status |-> returncode, text |-> Join(output_chunks)]
    /\ pc' = "returned"
    /\ UNCHANGED dvars
    /\ UNCHANGED <<child_blocked, child_read_stdin>>
    /\ UNCHANGED <<input_data, log_file, master_open, slave_open, stdin_closed,
                   stdin_written, log_handle, output_chunks, returncode, exc,
                   exit_code, stdout, logfile, child, child_status, child_slave,
                   buf, chunks_read, master_closes, log_closes, entered_loop,
                   log_open_failed,
                   left_by>>

\* lines 109-111 of main: sys.exit(returncode); sys.exit(None) exits with 0.
MainExit ==
    /\ pc = "returned"
    /\ exit_code' = IF returned.status = None THEN "0" ELSE returned.status
    /\ pc' = "exited"
    /\ UNCHANGED dvars
    /\ UNCHANGED <<child_blocked, child_read_stdin>>
    /\ UNCHANGED <<input_data, log_file, master_open, slave_open, stdin_closed,
                   stdin_written, log_handle, output_chunks, returncode, exc,
                   returned, stdout, logfile, child, child_status, child_slave,
                   buf, chunks_read, master_closes, log_closes, entered_loop,
                   log_open_failed,
                   left_by>>

----------------------------------------------------------------------------
\* The environment: the child process started at line 20

\* The child writes one byte to its stdout or stderr, both the subordinate
\* endpoint handed over at lines 23-24.  The write blocks while the
\* pseudo-terminal is full, and completes once the runner has read.
ChildWrite ==
    /\ child = "running"
    /\ child_slave
    /\ master_open
    /\ pc \notin Terminal
    /\ Len(buf) + Len(Join(chunks_read)) < MaxOut
    /\ \/ /\ Len(buf) < PtyCap
          /\ \E b \in Bytes : buf' = Append(buf, b)
          /\ child_blocked' = FALSE
       \/ /\ Len(buf) >= PtyCap
          /\ ~child_blocked
          /\ child_blocked' = TRUE
          /\ buf' = buf
    /\ UNCHANGED dvars
    /\ UNCHANGED child_read_stdin
    /\ UNCHANGED <<pc, input_data, log_file, master_open, slave_open,
                   stdin_closed, stdin_written, log_handle, output_chunks,
                   returncode, exc, returned, exit_code, stdout, logfile,
                   child, child_status, child_slave, chunks_read,
                   master_closes, log_closes, entered_loop, log_open_failed,
                   left_by>>

\* The child closes its stdout and stderr and keeps running.
ChildCloseOutput ==
    /\ child = "running"
    /\ child_slave
    /\ ~child_blocked
    /\ pc \notin Terminal
    /\ child_slave' = FALSE
    /\ UNCHANGED dvars
    /\ UNCHANGED <<child_blocked, child_read_stdin>>
    /\ UNCHANGED <<pc, input_data, log_file, master_open, slave_open,
                   stdin_closed, stdin_written, log_handle, output_chunks,
                   returncode, exc, returned, exit_code, stdout, logfile,
                   child, child_status, buf, chunks_read, master_closes,
                   log_closes, entered_loop, log_open_failed,
                   left_by>>

\* The child exits with some status; the OS closes its descriptors.  The
\* subordinate endpoint stays open (held) when a descendant of the child
\* inherited it and lives on.  A child blocked in a write does not get to
\* exit while the controller endpoint is open.
ChildExit ==
    /\ child = "running"
    /\ pc \notin Terminal
    /\ child_blocked => ~master_open
    /\ \E s \in ExitStatuses : child_status' = s
    /\ child' = "exited"
    /\ child_blocked' = FALSE
    /\ \E held \in BOOLEAN : child_slave' = (child_slave /\ held)
    /\ UNCHANGED dvars
    /\ UNCHANGED child_read_stdin
    /\ UNCHANGED <<pc, input_data, log_file, master_open, slave_open,
                   stdin_closed, stdin_written, log_handle, output_chunks,
                   returncode, exc, returned, exit_code, stdout, logfile, buf,
                   chunks_read, master_closes, log_closes, entered_loop,
                   log_open_failed,
                   left_by>>

\* The child reads from its standard input, the pipe of line 22, while the
\* runner is writing a text the pipe does not hold.
ChildReadInput ==
    /\ child = "running"
    /\ ~child_blocked
    /\ ~child_read_stdin
    /\ pc = "input"
    /\ input_data = "big"
    /\ child_read_stdin' = TRUE
    /\ UNCHANGED dvars
    /\ UNCHANGED <<pc, input_data, log_file, master_open, slave_open,
                   stdin_closed, stdin_written, log_handle, output_chunks,
                   returncode, exc, returned, exit_code, stdout, logfile,
                   child, child_status, child_slave, buf, chunks_read,
                   master_closes, log_closes, entered_loop, log_open_failed,
                   left_by, child_blocked>>

RNext ==
    \/ OpenPty \/ Spawn \/ CloseSlave \/ SendInput \/ OpenLog
    \/ Select \/ Read \/ Poll \/ DrainSelect \/ DrainRead
    \/ Finally \/ Return \/ MainExit
    \/ ChildWrite \/ ChildCloseOutput \/ ChildExit \/ ChildReadInput


----------------------------------------------------------------------------
\* The decoder's data.  A text is a sequence of characters.  A JSON mapping
\* is a record whose field keys holds the keys present.

\* The stream holds at most MaxLines lines.
MaxLines == 3

\* inp.get("command", "")[:80]
BashLimit == 80

\* str(inp)[:60]
FallbackLimit == 60

Take(t, n) == SubSeq(t, 1, Min(n, Len(t)))

\* needle in text, for Python strings
IsSubstring(needle, text) ==
    \E i \in 0..(Len(text) - Len(needle)) :
        SubSeq(text, i + 1, i + Len(needle)) = needle

\* dict.get(key, default) on a mapping
Get(m, key, default) == IF key \in m.keys THEN m[key] ELSE default

\* An argument mapping is a sequence of <<key, value>> pairs, the keys
\* distinct, the values texts.
HasArg(inp, key) == \E i \in 1..Len(inp) : inp[i][1] = key

ArgGet(inp, key, default) ==
    IF HasArg(inp, key)
    THEN inp[CHOOSE i \in 1..Len(inp) : inp[i][1] = key][2]
    ELSE default

\* The characters of the argument names of the model
KeyText(key) ==
    CASE key = "file_path" -> <<"f","i","l","e","_","p","a","t","h">>
      [] key = "pattern" -> <<"p","a","t","t","e","r","n">>
      [] key = "path" -> <<"p","a","t","h">>
      [] key = "command" -> <<"c","o","m","m","a","n","d">>
      [] key = "description" -> <<"d","e","s","c","r","i","p","t","i","o","n">>
      [] OTHER -> <<"k">>

\* repr() of a string holding no quote, backslash or control character
Repr(t) == <<"'">> \o t \o <<"'">>

\* str() of an argument mapping: {'k': 'v', 'k2': 'v2'}
RECURSIVE StrItems(_)
StrItems(inp) ==
    IF inp = <<>> THEN <<>>
    ELSE Repr(KeyText(inp[1][1])) \o <<":", " ">> \o Repr(inp[1][2])
         \o (IF Len(inp) > 1 THEN <<",", " ">> ELSE <<>>)
         \o StrItems(Tail(inp))

StrDict(inp) == <<"{">> \o StrItems(inp) \o <<"}">>

\* Detail with the command of Bash cut like the fallback
DetailBashCutShort(tool_name, inp) ==
    CASE tool_name = "Read" -> ArgGet(inp, "file_path", <<>>)
      [] tool_name = "Grep" ->
            <<"p","a","t","t","e","r","n","=">>
            \o Repr(ArgGet(inp, "pattern", <<>>))
            \o <<" ","i","n"," ">> \o ArgGet(inp, "path", <<".">>)
      [] tool_name = "Glob" -> ArgGet(inp, "pattern", <<>>)
      [] tool_name = "Bash" -> Take(ArgGet(inp, "command", <<>>), FallbackLimit)
      [] tool_name = "Task" -> ArgGet(inp, "description", <<>>)
      [] OTHER -> ArgGet(inp, "description", Take(StrDict(inp), FallbackLimit))

\* lines 46-59: the detail string of a progress line
Detail(tool_name, inp) ==
    CASE tool_name = "Read" -> ArgGet(inp, "file_path", <<>>)
      [] tool_name = "Grep" ->
            <<"p","a","t","t","e","r","n","=">>
            \o Repr(ArgGet(inp, "pattern", <<>>))
            \o <<" ","i","n"," ">> \o ArgGet(inp, "path", <<".">>)
      [] tool_name = "Glob" -> ArgGet(inp, "pattern", <<>>)
      [] tool_name = "Bash" -> Take(ArgGet(inp, "command", <<>>), BashLimit)
      [] tool_name = "Task" -> ArgGet(inp, "description", <<>>)
      [] OTHER -> ArgGet(inp, "description", Take(StrDict(inp), FallbackLimit))

\* Content blocks
ToolUse(id, name, inp) ==
    [shape |-> "map", keys |-> {"type", "id", "name", "input"},
     type |-> "tool_use", id |-> id, name |-> name, input |-> inp,
     text |-> <<>>]

Text(t) ==
    [shape |-> "map", keys |-> {"type", "text"},
     type |-> "text", id |-> "", name |-> "", input |-> <<>>, text |-> t]

\* {"type": "tool_use"} with no id, name or input
BareToolUse ==
    [shape |-> "map", keys |-> {"type"},
     type |-> "tool_use", id |-> "", name |-> "", input |-> <<>>,
     text |-> <<>>]

\* A block of another type, such as "thinking"
OtherBlock ==
    [shape |-> "map", keys |-> {"type"},
     type |-> "thinking", id |-> "", name |-> "", input |-> <<>>,
     text |-> <<>>]

\* A content item that is no mapping: a string or a number
ScalarBlock ==
    [shape |-> "scalar", keys |-> {},
     type |-> "", id |-> "", name |-> "", input |-> <<>>, text |-> <<>>]

\* A payload (the value of "message" or "result"): a mapping with a content
\* list, a mapping whose content is no list, a mapping without content, or
\* no mapping at all (a string, null).
Payload(blocks) ==
    [shape |-> "map", keys |-> {"content"}, content_is_list |-> TRUE,
     content |-> blocks]

PayloadScalarContent ==
    [shape |-> "map", keys |-> {"content"}, content_is_list |-> FALSE,
     content |-> <<>>]

ScalarPayload ==
    [shape |-> "scalar", keys |-> {}, content_is_list |-> FALSE,
     content |-> <<>>]

EmptyMap ==
    [shape |-> "map", keys |-> {}, content_is_list |-> FALSE, content |-> <<>>]

\* The text of a line between its surrounding whitespace: nothing, text
\* that json.loads rejects, or a JSON value.
NoBody == [kind |-> "empty", shape |-> "", keys |-> {}, type |-> "",
           message |-> EmptyMap, result |-> EmptyMap]

Garbage == [kind |-> "garbage", shape |-> "", keys |-> {}, type |-> "",
            message |-> EmptyMap, result |-> EmptyMap]

\* a JSON value that is no mapping, such as "not json" or [1]
JsonScalar == [kind |-> "json", shape |-> "scalar", keys |-> {}, type |-> "",
               message |-> EmptyMap, result |-> EmptyMap]

Record(keys, type, message, result) ==
    [kind |-> "json", shape |-> "map", keys |-> keys, type |-> type,
     message |-> message, result |-> result]

Assistant(blocks) ==
    Record({"type", "message"}, "assistant", Payload(blocks), EmptyMap)

ResultRecord(blocks) ==
    Record({"type", "result"}, "result", EmptyMap, Payload(blocks))

\* A line as sys.stdin delivers it: leading whitespace, body, trailing
\* whitespace, line terminator.
Line(lead, body, trail, term) ==
    [lead |-> lead, body |-> body, trail |-> trail, term |-> term]

A == <<"a">>
B == <<"b">>
AB == <<"a", "b">>
AA == <<"a", "a">>
BA == <<"b", "a">>

\* A command longer than the progress line shows, and the argument mapping
\* of a tool call that carries it
LongCommand == [i \in 1..(BashLimit + 5) |-> "c"]

LongInput == << <<"command", LongCommand>> >>

\* An assistant message announcing tool t1, then the fragment "a"
ReadThenA ==
    Line("", Assistant(<<ToolUse("t1", "Read", << <<"file_path", A>> >>),
                         Text(A)>>), "", "\n")

\* An assistant message resending "a" and tool t1, then the fragment "b"
AThenReadThenB ==
    Line(" ", Assistant(<<Text(A), ToolUse("t1", "Read", << <<"file_path", A>> >>),
                          Text(B)>>), "", "\r\n")

\* The lines a stream of the model is made of
Lines == {
    Line("", NoBody, "", "\n"),
    Line("", NoBody, "  ", "\r\n"),
    Line("", Garbage, "", "\n"),
    Line("", JsonScalar, "", "\n"),
    Line("", Record({"type"}, "system", EmptyMap, EmptyMap), "", "\n"),
    Line("", Record({}, "", EmptyMap, EmptyMap), "", "\n"),
    Line("", Record({"type"}, "assistant", EmptyMap, EmptyMap), "", "\n"),
    Line("", Record({"type", "message"}, "assistant", ScalarPayload, EmptyMap),
         "", "\n"),
    Line("", Record({"type", "message"}, "assistant", PayloadScalarContent,
                    EmptyMap), "", "\n"),
    ReadThenA,
    AThenReadThenB,
    Line("", Assistant(<<ToolUse("t2", "Grep", << <<"pattern", A>>, <<"path", B>> >>),
                         ToolUse("t2", "Grep", << <<"pattern", A>>, <<"path", B>> >>),
                         Text(AB), Text(<<>>), OtherBlock>>), "", "\n"),
    Line("", Assistant(<<BareToolUse, Text(B), Text(B), Text(A)>>), "", "\n"),
    Line("", Assistant(<<Text(B), ScalarBlock, Text(A)>>), "", "\n"),
    Line("", ResultRecord(<<Text(A), ToolUse("t3", "Bash", << <<"command", A>> >>),
                            Text(AB)>>), "", "\n"),
    Line("", Record({"type", "message"}, "result", Payload(<<Text(B)>>),
                    EmptyMap), "", ""),
    Line("", Record({"type", "result"}, "result", EmptyMap, ScalarPayload),
         "", "\n"),
    \* final results carrying both a result and a message
    Line("", Record({"type", "result", "message"}, "result",
                    Payload(<<Text(B)>>), Payload(<<Text(A)>>)), "", "\n"),
    Line("", Record({"type", "result", "message"}, "result",
                    Payload(<<Text(B)>>), ScalarPayload), "", "\n"),
    \* a final result with a content item that is no mapping
    Line("", ResultRecord(<<Text(B), ScalarBlock, Text(A)>>), "", "\n"),
    \* tool calls of every name the decoder tells apart
    Line("", Assistant(<<ToolUse("t4", "Bash", LongInput),
                         ToolUse("t5", "Glob", << <<"pattern", AB>> >>),
                         ToolUse("t6", "Task", << <<"description", B>> >>)>>),
         "", "\n"),
    Line("", Assistant(<<ToolUse("t7", "WebFetch",
                                 << <<"command", A>>, <<"description", BA>> >>),
                         ToolUse("t8", "WebFetch", LongInput),
                         ToolUse("t9", "Grep", << <<"pattern", B>> >>)>>),
         "", "\n"),
    \* a fragment extending the narrative, one lying across two earlier
    \* fragments, one that is new
    Line("", Assistant(<<Text(A), Text(AB), Text(AA), Text(BA)>>), "", "\n"),
    \* a record of another kind carrying content
    Line("", Record({"type", "message"}, "user",
                    Payload(<<Text(B), ToolUse("t1", "Read", << <<"file_path", A>> >>)>>),
                    EmptyMap), "", "\n")
}

----------------------------------------------------------------------------
\* The decoder

\* line 24: line.strip() leaves the body
Strip(line) == line.body

\* line 29: json.loads raises JSONDecodeError on text that is no JSON
LoadsFails(body) == body.kind = "garbage"

\* The interpreter's state while one line is handled.  failed: an exception
\* other than JSONDecodeError has been raised.
St(text, seen, out, ids, failed) ==
    [full_text |-> text, seen_tools |-> seen, live |-> out, announced |-> ids,
     failed |-> failed]

Fail(st) == [st EXCEPT !.failed = TRUE]

ToolLine(name, detail) ==
    [kind |-> "tool", name |-> name, detail |-> detail, text |-> <<>>]

TextOut(t) == [kind |-> "text", name |-> "", detail |-> <<>>, text |-> t]

\* HandleToolUse without seen_tools.add(tool_id)
HandleToolUseNoAdd(st, block) ==
    LET tool_name == Get(block, "name", "unknown")
        tool_id == Get(block, "id", "")
        inp == Get(block, "input", <<>>)
    IN  IF tool_id \notin st.seen_tools
        THEN [st EXCEPT
                !.live = Append(@, ToolLine(tool_name, Detail(tool_name, inp))),
                !.announced = Append(@, tool_id)]
        ELSE st

\* lines 40-60: a tool_use block of an assistant message
HandleToolUse(st, block) ==
    LET tool_name == Get(block, "name", "unknown")
        tool_id == Get(block, "id", "")
        inp == Get(block, "input", <<>>)
    IN  IF tool_id \notin st.seen_tools
        THEN [st EXCEPT
                !.seen_tools = @ \cup {tool_id},
                !.live = Append(@, ToolLine(tool_name, Detail(tool_name, inp))),
                !.announced = Append(@, tool_id)]
        ELSE st

\* HandleText without the "text not in full_text" test
HandleTextNoDedup(st, block) ==
    LET text == Get(block, "text", <<>>)
    IN  IF text # <<>>
        THEN [st EXCEPT
                !.live = Append(@, TextOut(text)),
                !.full_text = @ \o text]
        ELSE st

\* HandleText suppressing a fragment only when that very fragment was
\* emitted before
HandleTextExactMatch(st, block) ==
    LET text == Get(block, "text", <<>>)
    IN  IF text # <<>> /\ ~(\E i \in 1..Len(st.live) : st.live[i] = TextOut(text))
        THEN [st EXCEPT
                !.live = Append(@, TextOut(text)),
                !.full_text = @ \o text]
        ELSE st

\* HandleText putting the fragment at the front of the narrative
HandleTextPrepend(st, block) ==
    LET text == Get(block, "text", <<>>)
    IN  IF text # <<>> /\ ~IsSubstring(text, st.full_text)
        THEN [st EXCEPT
                !.live = Append(@, TextOut(text)),
                !.full_text = text \o @]
        ELSE st

\* lines 63-66 and 76-79: a text block
HandleText(st, block) ==
    LET text == Get(block, "text", <<>>)
    IN  IF text # <<>> /\ ~IsSubstring(text, st.full_text)
        THEN [st EXCEPT
                !.live = Append(@, TextOut(text)),
                !.full_text = @ \o text]
        ELSE st

\* lines 37-66: the blocks of an assistant message, in order; block.get on
\* a block that is no mapping raises AttributeError.
RECURSIVE ScanAssistant(_, _)
ScanAssistant(st, blocks) ==
    IF blocks = <<>> THEN st
    ELSE LET block == Head(blocks)
         IN  IF block.shape # "map" THEN Fail(st)
             ELSE IF Get(block, "type", None) = "tool_use"
                  THEN ScanAssistant(HandleToolUse(st, block), Tail(blocks))
             ELSE IF Get(block, "type", None) = "text"
                  THEN ScanAssistant(HandleText(st, block), Tail(blocks))
             ELSE ScanAssistant(st, Tail(blocks))

\* lines 74-79: the blocks of a final result, in order
RECURSIVE ScanResult(_, _)
ScanResult(st, blocks) ==
    IF blocks = <<>> THEN st
    ELSE LET block == Head(blocks)
         IN  IF block.shape # "map" THEN Fail(st)
             ELSE IF Get(block, "type", None) = "text"
                  THEN ScanResult(HandleText(st, block), Tail(blocks))
             ELSE ScanResult(st, Tail(blocks))

\* ResultPayload with the message preferred to the result
ResultPayloadMessageFirst(body) ==
    Get(body, "message", Get(body, "result", EmptyMap))

\* line 70: result = obj.get("result", obj.get("message", {}))
ResultPayload(body) ==
    Get(body, "result", Get(body, "message", EmptyMap))

\* Interpret with a record of any kind but "result" handled as an assistant
\* message
InterpretAnyKind(st, body) ==
    IF LoadsFails(body) THEN st
    ELSE IF body.shape # "map" THEN Fail(st)
    ELSE LET msg_type == Get(body, "type", "")
         IN  IF msg_type # "result"
             THEN LET message == Get(body, "message", EmptyMap)
                  IN  IF message.shape # "map" THEN Fail(st)
                      ELSE IF "content" \in message.keys
                              /\ ~message.content_is_list
                           THEN st
                      ELSE ScanAssistant(st, Get(message, "content", <<>>))
             ELSE LET result == ResultPayload(body)
                  IN  IF result.shape # "map" THEN st
                      ELSE IF "content" \in result.keys
                              /\ ~result.content_is_list
                           THEN st
                      ELSE ScanResult(st, Get(result, "content", <<>>))

\* lines 28-82: the interpretation of a stripped, non-empty line
Interpret(st, body) ==
    IF LoadsFails(body) THEN st                 \* except JSONDecodeError: pass
    ELSE IF body.shape # "map" THEN Fail(st)    \* obj.get: AttributeError
    ELSE LET msg_type == Get(body, "type", "")
         IN  IF msg_type = "assistant"
             THEN LET message == Get(body, "message", EmptyMap)
                  IN  IF message.shape # "map" THEN Fail(st)
                      ELSE IF "content" \in message.keys
                              /\ ~message.content_is_list
                           THEN st
                      ELSE ScanAssistant(st, Get(message, "content", <<>>))
             ELSE IF msg_type = "result"
             THEN LET result == ResultPayload(body)
                  IN  IF result.shape # "map" THEN st
                      ELSE IF "content" \in result.keys
                              /\ ~result.content_is_list
                           THEN st
                      ELSE ScanResult(st, Get(result, "content", <<>>))
             ELSE st

DInit ==
    /\ dpc = "reading"
    /\ full_text = <<>>
    /\ seen_tools = {}
    /\ jsonl_buf = <<>>
    /\ jsonl_disk = <<>>
    /\ live = <<>>
    /\ narrative_file = <<>>
    /\ received = <<>>
    /\ announced = <<>>
    /\ narrative_writes = 0

\* ReadLine with the line archived only after it has been interpreted
ReadLineArchiveLast ==
    /\ dpc = "reading"
    /\ Len(received) < MaxLines
    /\ received # <<>> => received[Len(received)].term # ""
    /\ \E line \in Lines :
        LET body == Strip(line)
            st0 == St(full_text, seen_tools, live, announced, FALSE)
            st == IF body.kind = "empty" THEN st0 ELSE Interpret(st0, body)
        IN  /\ received' = Append(received, line)
            /\ jsonl_buf' = <<>>
            /\ jsonl_disk' = IF st.failed THEN jsonl_disk \o jsonl_buf
                              ELSE jsonl_disk \o jsonl_buf \o <<line>>
            /\ full_text' = st.full_text
            /\ seen_tools' = st.seen_tools
            /\ live' = st.live
            /\ announced' = st.announced
            /\ dpc' = IF st.failed THEN "crashed" ELSE "reading"
    /\ UNCHANGED rvars
    /\ UNCHANGED <<narrative_file, narrative_writes>>

\* lines 19-82: one iteration of "for line in sys.stdin".  The line is
\* written to jsonl_handle and flushed, stripped, and interpreted unless
\* empty.  An exception other than JSONDecodeError leaves main; the with
\* statement of line 18 closes jsonl_handle on the way.  Only the last line
\* of a stream can lack its terminator.
ReadLine ==
    /\ dpc = "reading"
    /\ Len(received) < MaxLines
    /\ received # <<>> => received[Len(received)].term # ""
    /\ \E line \in Lines :
        LET body == Strip(line)
            st0 == St(full_text, seen_tools, live, announced, FALSE)
            st == IF body.kind = "empty" THEN st0 ELSE Interpret(st0, body)
        IN  /\ received' = Append(received, line)
            /\ jsonl_buf' = <<>>
            /\ jsonl_disk' = jsonl_disk \o jsonl_buf \o <<line>>
            /\ full_text' = st.full_text
            /\ seen_tools' = st.seen_tools
            /\ live' = st.live
            /\ announced' = st.announced
            /\ dpc' = IF st.failed THEN "crashed" ELSE "reading"
    /\ UNCHANGED rvars
    /\ UNCHANGED <<narrative_file, narrative_writes>>

\* lines 18 and 85-86: sys.stdin is exhausted; jsonl_handle is closed and
\* full_text is written to the narrative file, opened with "w".
StreamEnd ==
    /\ dpc = "reading"
    /\ jsonl_disk' = jsonl_disk \o jsonl_buf
    /\ jsonl_buf' = <<>>
    /\ narrative_file' = full_text
    /\ narrative_writes' = narrative_writes + 1
    /\ dpc' = "done"
    /\ UNCHANGED rvars
    /\ UNCHANGED <<full_text, seen_tools, live, received, announced>>

DNext == ReadLine \/ StreamEnd

\* The runner, before the decoder has read anything
Init == RInit /\ DInit

Spec == Init /\ [][RNext]_vars

\* lines 38-91: a step of the runner from the loop to the return.  Every
\* one of them ends by itself: the readiness waits time out after 0.1 s and
\* a read follows a wait that reported the endpoint readable.
RunnerLoop ==
    Select \/ Read \/ Poll \/ DrainSelect \/ DrainRead \/ Finally \/ Return

\* The runner keeps running; nothing is assumed of the child.
FairSpec == Init /\ [][RNext]_vars /\ WF_vars(RunnerLoop)

\* The decoder, beside a runner that has not started
DecoderInit == DInit /\ RInit /\ input_data = "None" /\ ~log_file

DecoderSpec == DecoderInit /\ [][DNext]_vars

----------------------------------------------------------------------------
\* Claims about the runner, checked under Spec

Over == pc \in {"returned", "exited"}

\* The decoded chunks, in the order they were read
RECURSIVE DecodeEach(_)
DecodeEach(chunks) ==
    IF chunks = <<>> THEN <<>>
    ELSE <<Decode(Head(chunks))>> \o DecodeEach(Tail(chunks))

\* The ways out of the loop the runner is meant to have: a zero-byte read,
\* a read error, termination seen by poll() followed by the drain
ReadPaths == {"eof", "read_error", "drain"}

\* C1: when run_with_pty has returned after a zero-byte read, a read error
\* or the drain, and the child has exited, the status it returned is present
\* and is the child's exit status.
C1_ReturnsExitStatus ==
    (Over /\ left_by \in ReadPaths /\ child = "exited")
        => /\ returned.status # None
           /\ returned.status = child_status

\* C2: when the session has ended, what was written to the live sink, what
\* was written to the log (when one was given) and the returned captured
\* text are equal, and hold the chunks read, decoded, in the order read.
C2_TeeEqual ==
    Over => /\ returned.text = Join(DecodeEach(chunks_read))
            /\ stdout = returned.text
            /\ log_file => logfile = returned.text

\* C3: once the polling loop has been entered and left, whichever way, the
\* controller endpoint has been closed exactly once and the log handle, if
\* one was opened, exactly once; neither is ever closed twice.
C3_ClosedExactlyOnce ==
    /\ master_closes <= 1
    /\ log_closes <= 1
    /\ (entered_loop /\ pc \in {"return", "returned", "exited", "raised"})
         => /\ master_closes = 1
            /\ ~master_open
            /\ ~log_handle
            /\ log_closes = IF log_file THEN 1 ELSE 0

\* A session left by an exception raised mid-loop, with a log open
C3_Witness ==
    /\ pc = "raised"
    /\ entered_loop
    /\ left_by = "exception"
    /\ log_file
    /\ chunks_read # <<>>
    /\ master_closes = 1
    /\ log_closes = 1

\* C4: when the session is declared over and the child has exited, nothing
\* the child wrote is left in the pseudo-terminal, and every chunk read has
\* been echoed, logged and captured.
C4_NoOutputDropped ==
    (Over /\ child = "exited")
        => /\ buf = <<>>
           /\ stdout = Join(DecodeEach(chunks_read))
           /\ log_file => logfile = Join(DecodeEach(chunks_read))
           /\ returned.text = Join(DecodeEach(chunks_read))

\* C10: the log destination never fails to open in a run whose child has
\* been started or has been sent its input.
C10_LogFailureBeforeSpawn ==
    log_open_failed => (child = "unborn" /\ ~stdin_written)

\* C11: the captured text returned is the decoding, invalid sequences
\* replaced, of all the bytes read taken as one byte string, however the
\* reads split them.
C11_CapturedIsDecodedStream ==
    (Over /\ left_by \in ReadPaths)
        => returned.text = Decode(Join(chunks_read))

\* C12: whenever an input text was supplied, the empty text included, the
\* child's input pipe has been closed once the polling loop is entered.
C12_InputClosedBeforeLoop ==
    (entered_loop /\ input_data # "None") => stdin_closed

\* C18: once run_with_pty has returned or raised, the controller endpoint
\* has been closed exactly once and the parent's copy of the subordinate
\* endpoint is not open, also when the session ended before the loop.
C18_EndpointsReleased ==
    pc \in {"returned", "exited", "raised"}
        => /\ master_closes = 1
           /\ ~master_open
           /\ ~slave_open

\* C16: once the polling loop has been entered and the child has exited,
\* run_with_pty ends, by returning or, when a write to a sink failed, by
\* raising, also when no byte was ever readable.
C16_LoopEnds ==
    (entered_loop /\ child = "exited")
        ~> (pc \in {"returned", "exited", "raised"})

\* The child exited without having written, a descendant still holds the
\* subordinate endpoint, and run_with_pty has returned after the drain
C16_Witness ==
    /\ pc = "returned"
    /\ left_by = "drain"
    /\ child = "exited"
    /\ child_slave
    /\ chunks_read = <<>>
    /\ buf = <<>>

\* C17: the runner is never blocked in the write of the input text while
\* the child, which has read none of it, is blocked in a write to the
\* pseudo-terminal that the runner has not begun to read.
C17_NoInputDeadlock ==
    ~ /\ pc = "input"
      /\ input_data = "big"
      /\ child = "running"
      /\ ~child_read_stdin
      /\ child_blocked
      /\ chunks_read = <<>>

----------------------------------------------------------------------------
\* Claims about the decoder, checked under DecoderSpec

Last(seq) == seq[Len(seq)]

Count(seq, x) == Cardinality({i \in 1..Len(seq) : seq[i] = x})

\* The content blocks of a line that is an assistant message of the wire
\* shape, and none for any other line
AssistantBlocks(line) ==
    LET body == line.body
    IN  IF /\ body.kind = "json" /\ body.shape = "map"
           /\ "type" \in body.keys /\ body.type = "assistant"
           /\ "message" \in body.keys /\ body.message.shape = "map"
           /\ "content" \in body.message.keys
           /\ body.message.content_is_list
        THEN body.message.content
        ELSE <<>>

\* The content blocks of a line that is a final result carrying a content
\* sequence under "result", or under "message" when it has no "result"
ResultBlocks(line) ==
    LET body == line.body
        payload == IF "result" \in body.keys THEN body.result
                   ELSE IF "message" \in body.keys THEN body.message
                   ELSE EmptyMap
    IN  IF /\ body.kind = "json" /\ body.shape = "map"
           /\ "type" \in body.keys /\ body.type = "result"
           /\ payload.shape = "map" /\ "content" \in payload.keys
           /\ payload.content_is_list
        THEN payload.content
        ELSE <<>>

IsToolUse(block) ==
    block.shape = "map" /\ "type" \in block.keys /\ block.type = "tool_use"

IsText(block) ==
    block.shape = "map" /\ "type" \in block.keys /\ block.type = "text"

IdOf(block) == IF "id" \in block.keys THEN block.id ELSE ""

\* A line that is not well-formed structured data, or that parses and lacks
\* the expected shape: no mapping at the top, an assistant message with no
\* message or a message that is no mapping, a content block that is no mapping
Malformed(line) ==
    LET body == line.body
    IN  \/ body.kind = "garbage"
        \/ body.kind = "json" /\ body.shape # "map"
        \/ /\ body.kind = "json" /\ body.shape = "map"
           /\ "type" \in body.keys /\ body.type = "assistant"
           /\ \/ "message" \notin body.keys
              \/ body.message.shape # "map"
              \/ \E i \in 1..Len(AssistantBlocks(line)) :
                    AssistantBlocks(line)[i].shape # "map"

\* C5: a malformed line is a no-op: the decoder does not fail on it, keeps
\* reading, and leaves the live sink, the narrative and the dedup set as
\* they were.
C5_MalformedLineIsNoOp ==
    [][(received' # received /\ Malformed(Last(received')))
         => /\ dpc' = "reading"
            /\ live' = live
            /\ full_text' = full_text
            /\ seen_tools' = seen_tools]_vars

\* C6: after any prefix of the stream the record-archive file holds exactly
\* the lines received, verbatim and in order, and nothing is left unflushed;
\* this holds too when the interpretation of the last line failed.
C6_ArchiveVerbatim ==
    /\ jsonl_disk = received
    /\ jsonl_buf = <<>>

\* A whitespace-only line with a \r\n terminator, then a line whose
\* interpretation fails, both archived
C6_Witness ==
    /\ dpc = "crashed"
    /\ Len(jsonl_disk) = 2
    /\ jsonl_disk[1] = Line("", NoBody, "  ", "\r\n")
    /\ jsonl_disk[2].body = JsonScalar

\* The identifiers of the tool_use blocks of the assistant messages among
\* lines, in order
RECURSIVE BlockIds(_)
BlockIds(blocks) ==
    IF blocks = <<>> THEN <<>>
    ELSE (IF IsToolUse(Head(blocks)) THEN <<IdOf(Head(blocks))>> ELSE <<>>)
         \o BlockIds(Tail(blocks))

RECURSIVE ToolIds(_)
ToolIds(lines) ==
    IF lines = <<>> THEN <<>>
    ELSE BlockIds(AssistantBlocks(Head(lines))) \o ToolIds(Tail(lines))

\* seq with every occurrence but the first of each element removed
RECURSIVE FirstOccurrences(_)
FirstOccurrences(seq) ==
    IF seq = <<>> THEN <<>>
    ELSE LET init == SubSeq(seq, 1, Len(seq) - 1)
         IN  IF Count(init, Last(seq)) > 0 THEN FirstOccurrences(init)
             ELSE Append(FirstOccurrences(init), Last(seq))

IsToolLine(out) == out.kind = "tool"

IsTextOut(out) == out.kind = "text"

\* C7: no tool identifier has two progress lines, every progress line on
\* the live sink announces one identifier, and while the decoder is running
\* the identifiers announced are those the assistant messages received
\* carry, each once, in the order of their first blocks.
C7_OneProgressLinePerTool ==
    /\ \A i \in 1..Len(announced) : Count(announced, announced[i]) = 1
    /\ Len(SelectSeq(live, IsToolLine)) = Len(announced)
    /\ dpc # "crashed" => announced = FirstOccurrences(ToolIds(received))

\* Tool t1 carried by two records, and tool t2 twice by one record, each
\* announced once
C7_Witness ==
    /\ dpc = "reading"
    /\ Len(received) = 3
    /\ Count(ToolIds(received), "t1") = 2
    /\ Count(ToolIds(received), "t2") = 2
    /\ Count(announced, "t1") = 1
    /\ Count(announced, "t2") = 1

\* The texts of the text blocks among blocks, in order
RECURSIVE BlockTexts(_)
BlockTexts(blocks) ==
    IF blocks = <<>> THEN <<>>
    ELSE (IF IsText(Head(blocks)) /\ "text" \in Head(blocks).keys
          THEN <<Head(blocks).text>> ELSE <<>>)
         \o BlockTexts(Tail(blocks))

\* The text fragments of the assistant messages and final results among lines
RECURSIVE Fragments(_)
Fragments(lines) ==
    IF lines = <<>> THEN <<>>
    ELSE BlockTexts(AssistantBlocks(Head(lines)))
         \o BlockTexts(ResultBlocks(Head(lines)))
         \o Fragments(Tail(lines))

\* C8: no text fragment is written twice to the live sink, and while the
\* decoder is running every non-empty fragment of the records received is
\* in the narrative, those after a suppressed fragment included.
C8_FragmentEmittedOnce ==
    /\ \A i, j \in 1..Len(live) :
          (i < j /\ IsTextOut(live[i]) /\ IsTextOut(live[j]))
              => live[i].text # live[j].text
    /\ dpc # "crashed" =>
          \A k \in 1..Len(Fragments(received)) :
              Fragments(received)[k] # <<>>
                  => IsSubstring(Fragments(received)[k], full_text)

\* "a" resent by the second record is suppressed and "b", which follows it
\* in that record, is emitted
C8_Witness ==
    /\ dpc = "reading"
    /\ received = <<ReadThenA, AThenReadThenB>>
    /\ SelectSeq(live, IsTextOut) = <<TextOut(A), TextOut(B)>>
    /\ full_text = AB

\* C9: the narrative file is not written while the stream is being read,
\* and once the decoder is over it has been written exactly once, with the
\* accumulated narrative.
C9_NarrativeWrittenOnce ==
    /\ dpc = "reading" => narrative_writes = 0
    /\ dpc # "reading" => (narrative_writes = 1 /\ narrative_file = full_text)

\* The fragments among frags that the emission rule lets through when the
\* narrative so far is narr: the non-empty ones that do not occur in the
\* narrative as it stands when their turn comes
RECURSIVE Kept(_, _)
Kept(narr, frags) ==
    IF frags = <<>> THEN <<>>
    ELSE LET f == Head(frags)
         IN  IF f # <<>> /\ ~IsSubstring(f, narr)
             THEN <<f>> \o Kept(narr \o f, Tail(frags))
             ELSE Kept(narr, Tail(frags))

\* The texts of the entries of out that are text fragments, in order
RECURSIVE TextsOf(_)
TextsOf(out) ==
    IF out = <<>> THEN <<>>
    ELSE (IF IsTextOut(Head(out)) THEN <<Head(out).text>> ELSE <<>>)
         \o TextsOf(Tail(out))

RECURSIVE AsTextOuts(_)
AsTextOuts(texts) ==
    IF texts = <<>> THEN <<>>
    ELSE <<TextOut(Head(texts))>> \o AsTextOuts(Tail(texts))

IsPrefix(s, t) == Len(s) <= Len(t) /\ SubSeq(t, 1, Len(s)) = s

IsResultRecord(line) ==
    /\ line.body.kind = "json" /\ line.body.shape = "map"
    /\ "type" \in line.body.keys /\ line.body.type = "result"

\* The content items of the line's payload are all mappings
BlocksAreMappings(line) ==
    \A i \in 1..Len(ResultBlocks(line)) : ResultBlocks(line)[i].shape = "map"

\* C13: a final-result record whose content items are mappings is read
\* through its result field when it has one and through its message field
\* otherwise; the text fragments of that payload's content go through the
\* emission rule, in order, and nothing else reaches the live sink; its
\* tool_use blocks print nothing and leave the set of seen identifiers as
\* it was.
C13_ResultPayload ==
    [][(/\ received' # received
        /\ IsResultRecord(Last(received'))
        /\ BlocksAreMappings(Last(received')))
         => LET kept == Kept(full_text, BlockTexts(ResultBlocks(Last(received'))))
            IN  /\ dpc' = "reading"
                /\ live' = live \o AsTextOuts(kept)
                /\ full_text' = full_text \o Join(kept)
                /\ seen_tools' = seen_tools
                /\ announced' = announced]_vars

\* A final result whose result says "a" and whose message says "b", then one
\* resending "a" next to a tool_use block and "ab": "a" and "ab" emitted, no
\* progress line, no identifier seen
C13_Witness ==
    /\ Len(received) = 2
    /\ received[1].body = Record({"type", "result", "message"}, "result",
                                 Payload(<<Text(B)>>), Payload(<<Text(A)>>))
    /\ BlockIds(ResultBlocks(received[2])) = <<"t3">>
    /\ live = <<TextOut(A), TextOut(AB)>>
    /\ full_text = <<"a", "a", "b">>
    /\ seen_tools = {}

\* The tool_use blocks of the assistant messages among lines, in order
RECURSIVE ToolBlocks(_)
ToolBlocks(lines) ==
    IF lines = <<>> THEN <<>>
    ELSE SelectSeq(AssistantBlocks(Head(lines)), IsToolUse)
         \o ToolBlocks(Tail(lines))

\* The first tool_use block received that carries the identifier id
FirstBlock(id) ==
    LET blocks == ToolBlocks(received)
    IN  blocks[CHOOSE i \in 1..Len(blocks) :
                  /\ IdOf(blocks[i]) = id
                  /\ \A j \in 1..(i - 1) : IdOf(blocks[j]) # id]

\* d is the first n characters of t, or all of t when it has fewer
IsFirstChars(d, t, n) ==
    /\ Len(d) = Min(n, Len(t))
    /\ \A i \in 1..Len(d) : d[i] = t[i]

\* The detail d is what a progress line shows for a call of tool name with
\* the argument mapping inp; a missing argument shows as the empty text, a
\* missing path of Grep as "."
Shows(name, inp, d) ==
    /\ name = "Read" => d = ArgGet(inp, "file_path", <<>>)
    /\ name = "Grep" =>
          d = <<"p","a","t","t","e","r","n","=","'">>
              \o ArgGet(inp, "pattern", <<>>)
              \o <<"'"," ","i","n"," ">> \o ArgGet(inp, "path", <<".">>)
    /\ name = "Glob" => d = ArgGet(inp, "pattern", <<>>)
    /\ name = "Bash" => IsFirstChars(d, ArgGet(inp, "command", <<>>), BashLimit)
    /\ name = "Task" => d = ArgGet(inp, "description", <<>>)
    /\ name \notin {"Read", "Grep", "Glob", "Bash", "Task"} =>
          IF HasArg(inp, "description")
          THEN d = ArgGet(inp, "description", <<>>)
          ELSE IsFirstChars(d, StrDict(inp), FallbackLimit)

\* C14: every progress line on the live sink names the tool of the first
\* block that carries its identifier and shows the detail chosen by that
\* name: the file_path for Read, the quoted pattern and the path for Grep,
\* the pattern for Glob, the first 80 characters of the command for Bash,
\* the description for Task, and for any other name the description if there
\* is one, else the first 60 characters of the argument mapping's text.
C14_DetailByToolName ==
    /\ Len(SelectSeq(live, IsToolLine)) = Len(announced)
    /\ \A k \in 1..Len(announced) :
          LET out == SelectSeq(live, IsToolLine)[k]
              block == FirstBlock(announced[k])
              name == IF "name" \in block.keys THEN block.name ELSE "unknown"
              inp == IF "input" \in block.keys THEN block.input ELSE <<>>
          IN  /\ out.name = name
              /\ Shows(name, inp, out.detail)

\* A Bash command of more than 80 characters shown cut to 80, another tool
\* shown by its description, and one without a description shown by the
\* first 60 characters of a longer argument mapping
C14_Witness ==
    /\ Len(LongCommand) > BashLimit
    /\ Len(StrDict(LongInput)) > FallbackLimit
    /\ \E i \in 1..Len(live) :
          live[i] = ToolLine("Bash", SubSeq(LongCommand, 1, BashLimit))
    /\ \E i \in 1..Len(live) : live[i] = ToolLine("WebFetch", BA)
    /\ \E i \in 1..Len(live) :
          /\ live[i].name = "WebFetch"
          /\ Len(live[i].detail) = FallbackLimit
    /\ \E i \in 1..Len(live) : live[i].name = "Grep"

\* C15: while the decoder is running, the text fragments on the live sink
\* are those fragments of the records received that were non-empty and did
\* not occur in the narrative when their turn came, each written whole, and
\* the narrative is these fragments put end to end with nothing between.
C15_EmittedIffNew ==
    dpc # "crashed" =>
        /\ TextsOf(live) = Kept(<<>>, Fragments(received))
        /\ full_text = Join(Kept(<<>>, Fragments(received)))

\* "a", then "ab" emitted whole although it begins with "a", then "aa", which
\* lies across the two, suppressed, then "ba" emitted
C15_Witness ==
    /\ Len(received) = 1
    /\ Fragments(received) = <<A, AB, AA, BA>>
    /\ TextsOf(live) = <<A, AB, BA>>
    /\ full_text = <<"a", "a", "b", "b", "a">>

\* A line that is empty once stripped, or a record (a mapping) of a kind
\* other than assistant message and final result
Inert(line) ==
    \/ line.body.kind = "empty"
    \/ /\ line.body.kind = "json" /\ line.body.shape = "map"
       /\ ("type" \in line.body.keys => line.body.type \notin {"assistant", "result"})

\* C19: an empty or whitespace-only line, and a record of a kind other than
\* assistant message and final result, is archived and leaves the live sink,
\* the narrative and the set of seen identifiers as they were.
C19_OtherLinesChangeNothing ==
    [][(received' # received /\ Inert(Last(received')))
         => /\ dpc' = "reading"
            /\ jsonl_disk' = Append(jsonl_disk, Last(received'))
            /\ live' = live
            /\ full_text' = full_text
            /\ seen_tools' = seen_tools
            /\ announced' = announced]_vars

\* After an assistant message, a whitespace-only line and a user record
\* that carries a text and a tool_use block have been archived and have
\* changed nothing
C19_Witness ==
    /\ Len(received) = 3
    /\ received[1] = ReadThenA
    /\ received[2].body = NoBody /\ received[2].trail # ""
    /\ received[3].body.type = "user"
    /\ BlockTexts(received[3].body.message.content) = <<B>>
    /\ jsonl_disk = received
    /\ live = <<ToolLine("Read", A), TextOut(A)>>
    /\ full_text = A
    /\ seen_tools = {"t1"}

\* C20: the narrative is always the text fragments on the live sink put end
\* to end in the order they were written; a step only appends to the
\* narrative and only adds to the set of seen identifiers; and the narrative
\* file, once written, holds the narrative.
C20_NarrativeGrows ==
    /\ [](/\ full_text = Join(TextsOf(live))
          /\ dpc = "done" => narrative_file = full_text)
    /\ [][/\ IsPrefix(full_text, full_text')
          /\ seen_tools \subseteq seen_tools']_vars

\* A stream that ended after two fragments were emitted between and after
\* progress lines
C20_Witness ==
    /\ dpc = "done"
    /\ Len(SelectSeq(live, IsToolLine)) = 2
    /\ TextsOf(live) = <<A, AB>>
    /\ live[Len(live)] = TextOut(AB)
    /\ IsToolLine(live[1])
    /\ narrative_file = <<"a", "a", "b">>

====
